---------------------------- MODULE Spec2Model ----------------------------
(***************************************************************************)
(* Person-following drone: the supervisory program of                      *)
(* src/main_integration.py (PersonFollowingDrone, main) together with the  *)
(* flight controller of src/flight_control/autonomous_controller.py        *)
(* (AutonomousController) and the target selection of                      *)
(* src/computer_vision/person_detector.py (PersonDetector).                *)
(*                                                                         *)
(* Spec is main() as the program runs it.  FlightSpec is flight_loop, which*)
(* start_flight_thread defines and nothing starts, running beside          *)
(* detection_loop.  DetectorSpec applies select_target_person to lists of  *)
(* detections, CommandSpec applies calculate_tracking_commands and         *)
(* get_smoothed_commands to targets, PerceptionSpec iterates process_frame *)
(* inside detection_loop, FrameSpec is process_frame with its commands,    *)
(* ControllerSpec applies send_velocity_command and follow_person to       *)
(* command dictionaries, and HistorySpec is a run of send_velocity_command *)
(* calls that fills velocity_history.                                      *)
(*                                                                         *)
(* The MAVSDK vehicle and the detector are the environment: every call     *)
(* into them either succeeds or raises, and every telemetry stream either  *)
(* yields a sample, ends, raises, or stops yielding.  Altitudes are in     *)
(* decimetres so that 0.5 m, 0.9 * 5.0 m, 2 m, 30 m and 50 m are integers. *)
(***************************************************************************)
EXTENDS Integers, Sequences, FiniteSets, TLC

(***************************************************************************)
(* Program constants                                                       *)
(***************************************************************************)
low_battery_threshold == 20
critical_battery_level == 10
min_altitude == 20
max_altitude == 300
emergency_altitude == 500
target_altitude == 50
gps_min_satellites == 6
landed_altitude == 5
safety_low_battery == 20
safety_min_altitude == 10
safety_max_altitude == 300
frame_width == 640
frame_height == 480
min_person_size == 50
max_person_size == 400
detection_queue_maxsize == 10

\* the key is absent from the dictionary get_flight_status returned
NoData == -1

(***************************************************************************)
(* Bounds of the model                                                     *)
(***************************************************************************)
\* supervisory ticks before run_main_loop's duration has elapsed
MaxTicks == 2
\* samples a wait loop reads without leaving the loop
MaxSamples == 1
\* targets the detection loop produces
MaxProduced == 11
\* safety checks that fail and commands the actuator refuses while flight_loop runs
MaxFaults == 2
\* detections in the list passed to select_target_person
MaxPersons == 3
\* calls of select_target_person on one list, and of calculate_tracking_commands on
\* one target
MaxCalls == 2
\* calls of update_tracking_history by detection_loop
MaxUpdates == 12
\* calls of send_velocity_command and follow_person on one dictionary
MaxSends == 3
\* frames process_frame captures
MaxCaptured == 5
\* calls of send_velocity_command in a run that fills velocity_history
MaxHistorySends == 7

(***************************************************************************)
(* Readings the telemetry streams can deliver                              *)
(***************************************************************************)
BatteryReadings == {9, 15, 50}
AltitudeReadings == {10, 50, 400, 600}
SatelliteReadings == {4, 6}
\* what _check_safety_conditions can read from the battery and position streams
SafetyBatteryReadings == {15, 50}
SafetyAltitudeReadings == {5, 10, 300, 400}
\* samples of the position stream while landing: below 0.5 m, and 0.5 m itself
LandingReadings == {4, 5}

VARIABLES
    pc,                 \* position of the main() coroutine
    is_connected,       \* AutonomousController.is_connected
    is_armed,           \* AutonomousController.is_armed
    is_flying,          \* AutonomousController.is_flying
    flight_start_time,  \* "None" or "set"
    emergency_landing,  \* the instance attribute AutonomousController.emergency_landing
    is_running,         \* PersonFollowingDrone.is_running
    is_following,       \* PersonFollowingDrone.is_following
    emergency_stop,     \* PersonFollowingDrone.emergency_stop
    detection_queue,    \* PersonFollowingDrone.detection_queue, oldest first
    produced,           \* targets the detection loop has enqueued so far
    offboard,           \* the vehicle is in offboard mode
    startup,            \* the start-up steps that succeeded, in order
    issued,             \* landing-side commands the actuator accepted
    velocity_sent,      \* what set_velocity_body received: 0 is the zero vector, i > 0 the i-th target's command
    gps_caller,         \* who called wait_for_gps
    waitTimedOut,       \* time.time() - start_time > timeout in the current wait
    waitSamples,        \* samples the current wait has read and rejected
    stalled,            \* the stream of the current wait yields nothing more
    lateSample,         \* a sample read after the timeout left the wait running
    ticks,              \* completed iterations of run_main_loop
    tickStart,          \* the flags as the current tick found them
    hStatus,            \* the status _check_system_health read in the current tick
    hTime,              \* flight time exceeded max_flight_time at that check
    tickResult,         \* how the current tick ended
    target_age,         \* age of the last target detected in following mode: "none",
                        \* "fresh" (within target_lost_timeout) or "lost"
    rtl_failed,         \* return_to_launch has returned False ("RTL failed") in this run
    landing_alt,        \* the altitude sample on which is_flying was last cleared
    enqueue,            \* detection_loop's position in its enqueue: "idle", "put", "full", "retry"
    lost,               \* items whose own enqueue ended without the item in the queue
    flight_pc,          \* flight_loop's position: "get", "act", "sleep" or "stopped"
    detection_data,     \* flight_loop's detection_data: 0 is None, i > 0 the i-th target
    got_newest,         \* the newest item queued when flight_loop's get_nowait ran, 0 when empty
    tick_trace,         \* what the current flight_loop iteration did after its get_nowait
    safety_read,        \* what _check_safety_conditions read in that iteration
    faults,             \* safety checks that failed and commands the actuator refused, so far
    persons,            \* the list passed to select_target_person
    selected,           \* what the calls of select_target_person returned: 0 is None,
                        \* k > 0 the k-th element of persons
    target_person,      \* the argument of calculate_tracking_commands
    raw_commands,       \* what the calls of calculate_tracking_commands returned or raised
    smoothed_commands,  \* what get_smoothed_commands returned for the last of them
    tracking_history,   \* PersonDetector.tracking_history, oldest first
    updates,            \* calls of update_tracking_history so far
    perception,         \* how the last iteration of detection_loop went
    detection_pc,       \* detection_loop: "loop" at its while, "stopped" after it, "dead"
                        \* when an exception left the thread
    velocity,           \* the dictionary passed to send_velocity_command and follow_person
    handed,             \* the setpoints set_velocity_body was called with, in order
    velocity_history,   \* AutonomousController.velocity_history, oldest first
    current_target,     \* AutonomousController.current_target: the call that set it, 0 for None
    last_target_time,   \* AutonomousController.last_target_time: the call that set it, 0 at start
    send_ret,           \* what the last call returned: "none", "True" or "False"
    sends               \* calls of send_velocity_command and follow_person so far

vars == <<pc, is_connected, is_armed, is_flying, flight_start_time, emergency_landing,
          is_running, is_following, emergency_stop, detection_queue, produced,
          offboard, startup, issued, velocity_sent, gps_caller, waitTimedOut,
          waitSamples, stalled, lateSample, ticks, tickStart, hStatus, hTime,
          tickResult, target_age, rtl_failed, landing_alt, enqueue, lost, flight_pc,
          detection_data, got_newest, tick_trace, safety_read, faults, persons,
          selected, target_person, raw_commands, smoothed_commands, tracking_history,
          updates, perception, detection_pc, velocity, handed, velocity_history,
          current_target, last_target_time, send_ret, sends>>

ctlVars == <<is_connected, is_armed, is_flying, flight_start_time, emergency_landing>>
sysVars == <<is_running, is_following, emergency_stop>>
queueVars == <<detection_queue, produced, target_age>>
vehicleVars == <<offboard, startup, issued, rtl_failed, landing_alt, velocity_sent>>
waitVars == <<gps_caller, waitTimedOut, waitSamples, stalled, lateSample>>
tickVars == <<ticks, tickStart, hStatus, hTime, tickResult>>
commandVars == <<target_person, raw_commands, smoothed_commands>>
perceptionVars == <<tracking_history, updates, perception, detection_pc>>
controllerVars == <<velocity, handed, velocity_history, current_target, last_target_time,
                    send_ret, sends>>
flightVars == <<enqueue, lost, flight_pc, detection_data, got_newest, tick_trace,
                safety_read, faults, controllerVars>>
detectorVars == <<persons, selected, commandVars, perceptionVars>>

NoStatus == [alt |-> NoData, bat |-> NoData]
\* _check_safety_conditions has not run; a field it did not read holds NoData
NoSafetyRead == [ran |-> FALSE, over |-> FALSE, bat |-> NoData, alt |-> NoData,
                 raised |-> FALSE]
NoTickStart == [offboard |-> FALSE, following |-> FALSE, lost |-> FALSE, queued |-> FALSE]

\* main() has not started: the objects are as their constructors left them
MainNotStarted ==
    /\ pc = "connect"
    /\ is_connected = FALSE
    /\ is_armed = FALSE
    /\ is_flying = FALSE
    /\ flight_start_time = "None"
    /\ emergency_landing = FALSE
    /\ is_running = FALSE
    /\ is_following = FALSE
    /\ emergency_stop = FALSE
    /\ detection_queue = <<>>
    /\ produced = 0
    /\ offboard = FALSE
    /\ startup = <<>>
    /\ issued = {}
    /\ velocity_sent = {}
    /\ gps_caller = "none"
    /\ waitTimedOut = FALSE
    /\ waitSamples = 0
    /\ stalled = FALSE
    /\ lateSample = FALSE
    /\ ticks = 0
    /\ tickStart = NoTickStart
    /\ hStatus = NoStatus
    /\ hTime = FALSE
    /\ tickResult = "none"
    /\ target_age = "none"
    /\ rtl_failed = FALSE
    /\ landing_alt = NoData
    /\ enqueue = "idle"
    /\ lost = {}
    /\ flight_pc = "stopped"
    /\ detection_data = 0
    /\ got_newest = 0
    /\ tick_trace = <<>>
    /\ safety_read = NoSafetyRead
    /\ faults = 0

\* target_person is None
NoTarget == [present |-> FALSE, center |-> <<0, 0>>, size |-> <<0, 0>>]
\* get_smoothed_commands has not been called
NoCommands == [st |-> "none", forward |-> <<0, 1>>, right |-> <<0, 1>>, up |-> <<0, 1>>,
               yaw |-> <<0, 1>>]

\* calculate_tracking_commands and get_smoothed_commands have not been called
CommandsAtRest ==
    /\ target_person = NoTarget
    /\ raw_commands = <<>>
    /\ smoothed_commands = NoCommands

\* PersonDetector.__init__, and detection_loop not started
PerceptionAtRest ==
    /\ tracking_history = <<>>
    /\ updates = 0
    /\ perception = "none"
    /\ detection_pc = "stopped"

\* AutonomousController.__init__, and no command sent
ControllerAtRest ==
    /\ velocity = <<>>
    /\ handed = <<>>
    /\ velocity_history = <<>>
    /\ current_target = 0
    /\ last_target_time = 0
    /\ send_ret = "none"
    /\ sends = 0

Init ==
    /\ pc = "connect"
    /\ is_connected = FALSE
    /\ is_armed = FALSE
    /\ is_flying = FALSE
    /\ flight_start_time = "None"
    /\ emergency_landing = FALSE
    /\ is_running = FALSE
    /\ is_following = FALSE
    /\ emergency_stop = FALSE
    /\ detection_queue = <<>>
    /\ produced = 0
    /\ offboard = FALSE
    /\ startup = <<>>
    /\ issued = {}
    /\ velocity_sent = {}
    /\ gps_caller = "none"
    /\ waitTimedOut = FALSE
    /\ waitSamples = 0
    /\ stalled = FALSE
    /\ lateSample = FALSE
    /\ ticks = 0
    /\ tickStart = NoTickStart
    /\ hStatus = NoStatus
    /\ hTime = FALSE
    /\ tickResult = "none"
    /\ target_age = "none"
    /\ rtl_failed = FALSE
    /\ landing_alt = NoData
    /\ enqueue = "idle"
    /\ lost = {}
    /\ flight_pc = "stopped"
    /\ detection_data = 0
    /\ got_newest = 0
    /\ tick_trace = <<>>
    /\ safety_read = NoSafetyRead
    /\ faults = 0
    /\ persons = <<>>
    /\ selected = <<>>
    /\ CommandsAtRest
    /\ PerceptionAtRest
    /\ ControllerAtRest

\* no wait loop is running
LeaveWait ==
    /\ gps_caller' = "none"
    /\ waitTimedOut' = FALSE
    /\ waitSamples' = 0
    /\ stalled' = FALSE
    /\ lateSample' = FALSE

\* a wait loop is entered: its clock and its stream start afresh
EnterWait(caller) ==
    /\ gps_caller' = caller
    /\ waitTimedOut' = FALSE
    /\ waitSamples' = 0
    /\ stalled' = FALSE
    /\ lateSample' = FALSE

(***************************************************************************)
(* initialize_system: connect, then wait_for_gps                           *)
(***************************************************************************)
ConnectOutcomes == {"connected", "stream_ends", "raises", "info_raises", "hangs"}

Connect ==
    /\ pc = "connect"
    /\ \E o \in ConnectOutcomes :
        /\ is_connected' = (o \in {"connected", "info_raises"})
        /\ startup' = IF o \in {"connected", "info_raises"}
                      THEN Append(startup, "connect") ELSE startup
        /\ pc' = CASE o \in {"connected", "stream_ends"} -> "gps_wait"
                   [] o \in {"raises", "info_raises"} -> "main_finally"
                   [] OTHER -> "hung"
        /\ IF o \in {"connected", "stream_ends"}
           THEN EnterWait("initialize_system") ELSE LeaveWait
    /\ UNCHANGED <<is_armed, is_flying, flight_start_time, emergency_landing,
                   sysVars, queueVars, offboard, issued, rtl_failed, landing_alt,
                   velocity_sent, tickVars>>
    /\ UNCHANGED <<flightVars, detectorVars>>


(***************************************************************************)
(* wait_for_gps: one step per sample of drone.gps.info()                   *)
(***************************************************************************)
\* the value wait_for_gps returned (falsy: False or None) goes to its caller
GpsReturn(ok) ==
    CASE gps_caller = "initialize_system" ->
            /\ pc' = IF ok THEN "start_system" ELSE "main_finally"
            /\ startup' = IF ok THEN Append(startup, "gps_lock") ELSE startup
            /\ UNCHANGED tickResult
      [] gps_caller = "arm_and_takeoff" ->
            /\ pc' = IF ok THEN "arm" ELSE "main_finally"
            /\ startup' = IF ok THEN Append(startup, "gps_lock") ELSE startup
            /\ UNCHANGED tickResult
      [] OTHER ->
            \* _check_emergency_conditions: "GPS signal lost" is an emergency
            /\ UNCHANGED startup
            /\ IF ok
               THEN pc' = "sleep" /\ tickResult' = "continue"
               ELSE pc' = "emergency_landing" /\ tickResult' = "emergency"

GpsLock(n) == n >= gps_min_satellites

GpsSample ==
    /\ pc = "gps_wait"
    /\ ~stalled
    /\ \E n \in SatelliteReadings :
        IF GpsLock(n)
        THEN GpsReturn(TRUE) /\ LeaveWait
        ELSE IF waitTimedOut
        THEN GpsReturn(FALSE) /\ LeaveWait
        ELSE /\ waitSamples < MaxSamples
             /\ waitSamples' = waitSamples + 1
             /\ UNCHANGED <<pc, startup, tickResult, gps_caller, waitTimedOut,
                            stalled, lateSample>>
    /\ UNCHANGED <<ctlVars, sysVars, queueVars, offboard, issued, rtl_failed, landing_alt,
                   velocity_sent,
                   ticks, tickStart, hStatus, hTime>>
    /\ UNCHANGED <<flightVars, detectorVars>>

\* the stream ends (wait_for_gps returns None) or raises (it returns False)
GpsStreamStops ==
    /\ pc = "gps_wait"
    /\ ~stalled
    /\ GpsReturn(FALSE)
    /\ LeaveWait
    /\ UNCHANGED <<ctlVars, sysVars, queueVars, offboard, issued, rtl_failed, landing_alt,
                   velocity_sent,
                   ticks, tickStart, hStatus, hTime>>
    /\ UNCHANGED <<flightVars, detectorVars>>

\* the clock of the current wait passes its timeout
TimeoutElapses ==
    /\ pc \in {"gps_wait", "takeoff_wait"}
    /\ ~waitTimedOut
    /\ waitTimedOut' = TRUE
    /\ UNCHANGED <<pc, ctlVars, sysVars, queueVars, vehicleVars, gps_caller,
                   waitSamples, stalled, lateSample, tickVars>>
    /\ UNCHANGED <<flightVars, detectorVars>>

\* the stream of the current wait yields nothing more and does not end
StreamStalls ==
    /\ pc \in {"gps_wait", "takeoff_wait"}
    /\ ~stalled
    /\ stalled' = TRUE
    /\ UNCHANGED <<pc, ctlVars, sysVars, queueVars, vehicleVars, gps_caller,
                   waitTimedOut, waitSamples, lateSample, tickVars>>
    /\ UNCHANGED <<flightVars, detectorVars>>

(***************************************************************************)
(* start_system and start_following_mode                                   *)
(***************************************************************************)
StartSystem ==
    /\ pc = "start_system"
    /\ is_running' = TRUE
    /\ pc' = "start_following"
    /\ UNCHANGED <<ctlVars, is_following, emergency_stop, queueVars, vehicleVars,
                   waitVars, tickVars>>
    /\ UNCHANGED <<flightVars, detectorVars>>

\* start_following_mode up to arm_and_takeoff's call of wait_for_gps
StartFollowingMode ==
    /\ pc = "start_following"
    /\ IF is_connected
       THEN pc' = "gps_wait" /\ EnterWait("arm_and_takeoff")
       ELSE pc' = "main_finally" /\ UNCHANGED waitVars
    /\ UNCHANGED <<ctlVars, sysVars, queueVars, vehicleVars, tickVars>>
    /\ UNCHANGED <<flightVars, detectorVars>>

\* arm_and_takeoff from the health stream to the takeoff command
ArmOutcomes == {"health_raises", "health_hangs", "arm_raises", "takeoff_raises", "ok"}

ArmAndTakeoff ==
    /\ pc = "arm"
    /\ \E o \in ArmOutcomes :
        /\ is_armed' = (o \in {"takeoff_raises", "ok"})
        /\ startup' = CASE o = "takeoff_raises" -> Append(startup, "arm")
                        [] o = "ok" -> Append(Append(startup, "arm"), "takeoff")
                        [] OTHER -> startup
        /\ pc' = CASE o = "ok" -> "takeoff_wait"
                   [] o = "health_hangs" -> "hung"
                   [] OTHER -> "main_finally"
        /\ IF o = "ok" THEN EnterWait("arm_and_takeoff") ELSE LeaveWait
    /\ UNCHANGED <<is_connected, is_flying, flight_start_time, emergency_landing,
                   sysVars, queueVars, offboard, issued, rtl_failed, landing_alt,
                   velocity_sent, tickVars>>
    /\ UNCHANGED <<flightVars, detectorVars>>

TakeoffReached(alt) == alt * 10 >= target_altitude * 9

\* the wait for takeoff: one step per sample of telemetry.position()
TakeoffSample ==
    /\ pc = "takeoff_wait"
    /\ ~stalled
    /\ \E alt \in AltitudeReadings :
        IF TakeoffReached(alt)
        THEN /\ is_flying' = TRUE
             /\ flight_start_time' = "set"
             /\ startup' = Append(startup, "altitude")
             /\ pc' = "enable_offboard"
             /\ LeaveWait
        ELSE /\ waitSamples < MaxSamples
             /\ waitSamples' = waitSamples + 1
             /\ lateSample' = waitTimedOut
             /\ UNCHANGED <<pc, is_flying, flight_start_time, startup, gps_caller,
                            waitTimedOut, stalled>>
    /\ UNCHANGED <<is_connected, is_armed, emergency_landing, sysVars, queueVars,
                   offboard, issued, rtl_failed, landing_alt,
                   velocity_sent, tickVars>>
    /\ UNCHANGED <<flightVars, detectorVars>>

\* the position stream ends: the loop is left and arm_and_takeoff returns True
TakeoffStreamEnds ==
    /\ pc = "takeoff_wait"
    /\ ~stalled
    /\ pc' = "enable_offboard"
    /\ LeaveWait
    /\ UNCHANGED <<ctlVars, sysVars, queueVars, vehicleVars, tickVars>>
    /\ UNCHANGED <<flightVars, detectorVars>>

\* the position stream raises: arm_and_takeoff returns False
TakeoffStreamRaises ==
    /\ pc = "takeoff_wait"
    /\ ~stalled
    /\ pc' = "main_finally"
    /\ LeaveWait
    /\ UNCHANGED <<ctlVars, sysVars, queueVars, vehicleVars, tickVars>>
    /\ UNCHANGED <<flightVars, detectorVars>>

\* enable_offboard_mode, then start_following_mode sets is_following
OffboardOutcomes == {"set_velocity_raises", "start_raises", "ok"}

EnableOffboard ==
    /\ pc = "enable_offboard"
    /\ \E o \in OffboardOutcomes :
        /\ velocity_sent' = IF o = "set_velocity_raises" THEN velocity_sent
                            ELSE velocity_sent \cup {0}
        /\ offboard' = (o = "ok")
        /\ startup' = IF o = "ok" THEN Append(startup, "offboard_start") ELSE startup
        /\ is_following' = IF o = "ok" THEN TRUE ELSE is_following
        /\ pc' = IF o = "ok" THEN "loop" ELSE "main_finally"
    /\ UNCHANGED <<ctlVars, is_running, emergency_stop, queueVars, issued, rtl_failed,
                   landing_alt, waitVars,
                   tickVars>>
    /\ UNCHANGED <<flightVars, detectorVars>>


(***************************************************************************)
(* Telemetry as get_flight_status returns it: with the controller          *)
(* connected each of position and battery is present unless its stream     *)
(* ended; a stream that raises leaves {'error': ...}, with neither.        *)
(***************************************************************************)
get_flight_status(conn) ==
    IF conn
    THEN [alt : AltitudeReadings \cup {NoData}, bat : BatteryReadings \cup {NoData}]
    ELSE {NoStatus}

\* time.time() - flight_start_time > max_flight_time, when flight_start_time is set
FlightTimeReadings(fst) == IF fst = "set" THEN {FALSE, TRUE} ELSE {FALSE}

\* _check_system_health comparing against the critical limits only
check_system_health_critical_only(conn, st, timeOver) ==
    IF ~conn THEN FALSE
    ELSE IF st.bat # NoData /\ st.bat < critical_battery_level THEN FALSE
    ELSE IF st.alt # NoData /\ st.alt > emergency_altitude THEN FALSE
    ELSE IF timeOver THEN FALSE
    ELSE TRUE

\* _check_system_health without its flight-time comparison
check_system_health_no_flight_time(conn, st, timeOver) ==
    IF ~conn THEN FALSE
    ELSE IF st.bat # NoData /\ st.bat < low_battery_threshold THEN FALSE
    ELSE IF st.alt # NoData /\ (st.alt < min_altitude \/ st.alt > max_altitude) THEN FALSE
    ELSE TRUE

\* _check_system_health: TRUE when the check reports healthy
check_system_health(conn, st, timeOver) ==
    IF ~conn THEN FALSE
    ELSE IF st.bat # NoData /\ st.bat < low_battery_threshold THEN FALSE
    ELSE IF st.alt # NoData /\ (st.alt < min_altitude \/ st.alt > max_altitude) THEN FALSE
    ELSE IF timeOver THEN FALSE
    ELSE TRUE

\* _check_emergency_conditions before its GPS probe: TRUE when it reports an emergency
check_emergency_status(st) ==
    IF st.bat # NoData /\ st.bat < critical_battery_level THEN TRUE
    ELSE IF st.alt # NoData /\ st.alt > emergency_altitude THEN TRUE
    ELSE FALSE

(***************************************************************************)
(* The controller's landing operations, on the record                      *)
(*   [is_following, is_flying, is_armed, offboard, issued, rtl_failed,     *)
(*    landing_alt, ret, hang]                                              *)
(* ret is the value returned, hang says the operation never returns.       *)
(***************************************************************************)
Vehicle ==
    [is_following |-> is_following, is_flying |-> is_flying, is_armed |-> is_armed,
     offboard |-> offboard, issued |-> issued, rtl_failed |-> rtl_failed,
     landing_alt |-> landing_alt, ret |-> TRUE, hang |-> FALSE]

SetVehicle(v) ==
    /\ is_following' = v.is_following
    /\ is_flying' = v.is_flying
    /\ is_armed' = v.is_armed
    /\ offboard' = v.offboard
    /\ issued' = v.issued
    /\ rtl_failed' = v.rtl_failed
    /\ landing_alt' = v.landing_alt

\* how a call of return_to_launch goes: the first sample of the position stream
\* in the wait for landing (NoData: none), and what ends the call without a
\* sample below 0.5 m
RtlOutcomes ==
    [alt : {NoData}, end : {"stop_raises", "rtl_raises", "wait_raises"}]
        \cup [alt : LandingReadings \cup {NoData}, end : {"stream_ends", "hangs"}]

\* "if altitude.relative_altitude_m < 0.5" with a sample that inverts the comparison
LandedAtOrBelow(alt) == alt <= landed_altitude

\* "if altitude.relative_altitude_m < 0.5"
Landed(alt) == alt < landed_altitude

\* return_to_launch: offboard.stop(), action.return_to_launch(), the wait for
\* LAND, the wait for an altitude below 0.5 m
return_to_launch(v, o) ==
    IF o.end = "stop_raises" THEN [v EXCEPT !.ret = FALSE, !.rtl_failed = TRUE]
    ELSE IF o.end = "rtl_raises"
    THEN [v EXCEPT !.offboard = FALSE, !.issued = @ \cup {"offboard_stop"},
                   !.ret = FALSE, !.rtl_failed = TRUE]
    ELSE LET w == [v EXCEPT !.offboard = FALSE,
                            !.issued = @ \cup {"offboard_stop", "rtl"}]
         IN CASE o.end = "wait_raises" -> [w EXCEPT !.ret = FALSE, !.rtl_failed = TRUE]
              [] o.alt # NoData /\ Landed(o.alt) ->
                    [w EXCEPT !.is_flying = FALSE, !.landing_alt = o.alt, !.ret = TRUE]
              [] o.end = "stream_ends" -> [w EXCEPT !.ret = TRUE]
              [] OTHER -> [w EXCEPT !.hang = TRUE]

\* stop_following_mode
stop_following_mode(v, o) ==
    return_to_launch([v EXCEPT !.is_following = FALSE], o)

DisarmOutcomes == {"ok", "raises"}

\* disarm
disarm(v, d) ==
    IF v.is_armed
    THEN IF d = "ok"
         THEN [v EXCEPT !.is_armed = FALSE, !.issued = @ \cup {"disarm"}, !.ret = TRUE]
         ELSE [v EXCEPT !.ret = FALSE]
    ELSE [v EXCEPT !.ret = TRUE]

\* AutonomousController.cleanup without its return_to_launch
controller_cleanup_disarm_only(v, o, d) ==
    IF v.is_armed THEN disarm(v, d) ELSE v

\* AutonomousController.cleanup calling return_to_launch and disarm whatever the flags
controller_cleanup_unconditional(v, o, d) ==
    LET s == return_to_launch(v, o)
    IN IF s.hang THEN s
       ELSE [s EXCEPT !.issued = @ \cup {"disarm"}, !.is_armed = FALSE]

\* AutonomousController.cleanup
controller_cleanup(v, o, d) ==
    LET s == IF v.is_flying THEN return_to_launch(v, o) ELSE v
    IN IF s.hang THEN s
       ELSE IF s.is_armed THEN disarm(s, d) ELSE s

\* PersonFollowingDrone.cleanup
cleanup(v, o1, o2, d) ==
    LET s == IF v.is_following THEN stop_following_mode(v, o1) ELSE v
    IN IF s.hang THEN s ELSE controller_cleanup(s, o2, d)

\* every way cleanup can end, over the outcomes of the actuator calls it makes
CleanupResults(v) ==
    LET NoCall == [alt |-> NoData, end |-> "stream_ends"]
    IN {cleanup(v, o1, o2, d) :
            o1 \in IF v.is_following THEN RtlOutcomes ELSE {NoCall},
            o2 \in IF v.is_flying THEN RtlOutcomes ELSE {NoCall},
            d \in IF v.is_armed THEN DisarmOutcomes ELSE {"ok"}}

\* stop_system
stop_system(v) == [v EXCEPT !.is_following = FALSE]


(***************************************************************************)
(* run_main_loop                                                           *)
(***************************************************************************)
\* the loop condition is false: the duration has elapsed or emergency_stop is set
LoopExit ==
    /\ pc = "loop"
    /\ emergency_stop \/ ticks >= MaxTicks
    /\ pc' = "loop_finally"
    /\ UNCHANGED <<ctlVars, sysVars, queueVars, vehicleVars, waitVars, tickVars>>
    /\ UNCHANGED <<flightVars, detectorVars>>

\* _check_system_health and, when it fails, stop_following_mode and break
TickHealth ==
    /\ pc = "loop"
    /\ ~emergency_stop /\ ticks < MaxTicks
    /\ \E st \in get_flight_status(is_connected),
          over \in FlightTimeReadings(flight_start_time) :
        /\ tickStart' = [offboard |-> offboard /\ is_flying,
                         following |-> is_following,
                         lost |-> target_age = "lost",
                         queued |-> detection_queue # <<>>]
        /\ hStatus' = st
        /\ hTime' = over
        /\ IF check_system_health(is_connected, st, over)
           THEN /\ pc' = "emergency_check"
                /\ tickResult' = "none"
                /\ UNCHANGED <<is_following, is_flying, is_armed, offboard, issued,
                               rtl_failed, landing_alt>>
           ELSE \E r \in {stop_following_mode(Vehicle, o) : o \in RtlOutcomes} :
                   /\ SetVehicle(r)
                   /\ tickResult' = "rtl"
                   /\ pc' = IF r.hang THEN "hung" ELSE "loop_finally"
    /\ UNCHANGED <<is_connected, flight_start_time, emergency_landing, is_running,
                   emergency_stop, queueVars, startup, velocity_sent, waitVars, ticks>>
    /\ UNCHANGED <<flightVars, detectorVars>>

\* get_flight_status for the log, then _check_emergency_conditions up to its GPS probe
TickEmergency ==
    /\ pc = "emergency_check"
    /\ \E st \in get_flight_status(is_connected) :
        /\ IF check_emergency_status(st)
           THEN /\ pc' = "emergency_landing"
                /\ tickResult' = "emergency"
                /\ UNCHANGED waitVars
           ELSE /\ pc' = "gps_wait"
                /\ EnterWait("_check_emergency_conditions")
                /\ UNCHANGED tickResult
    /\ UNCHANGED <<ctlVars, sysVars, queueVars, vehicleVars, ticks, tickStart,
                   hStatus, hTime>>
    /\ UNCHANGED <<flightVars, detectorVars>>

\* run_main_loop calls flight_controller.emergency_landing(): the attribute set
\* in __init__ is a bool and hides the method, the call raises TypeError, and
\* "except Exception" takes the loop to its finally block
EmergencyLandingCall ==
    /\ pc = "emergency_landing"
    /\ emergency_landing \in BOOLEAN
    /\ pc' = "loop_finally"
    /\ UNCHANGED <<ctlVars, sysVars, queueVars, vehicleVars, waitVars, tickVars>>
    /\ UNCHANGED <<flightVars, detectorVars>>

\* asyncio.sleep(1.0) at the end of an iteration
Sleep ==
    /\ pc = "sleep"
    /\ ticks' = ticks + 1
    /\ pc' = "loop"
    /\ UNCHANGED <<ctlVars, sysVars, queueVars, vehicleVars, waitVars, tickStart,
                   hStatus, hTime, tickResult>>
    /\ UNCHANGED <<flightVars, detectorVars>>

\* the finally block of run_main_loop: cleanup()
LoopFinally ==
    /\ pc = "loop_finally"
    /\ \E r \in CleanupResults(Vehicle) :
           /\ SetVehicle(r)
           /\ pc' = IF r.hang THEN "hung" ELSE "main_finally"
    /\ tickStart' = NoTickStart
    /\ hStatus' = NoStatus
    /\ hTime' = FALSE
    /\ UNCHANGED <<is_connected, flight_start_time, emergency_landing, is_running,
                   emergency_stop, queueVars, startup, velocity_sent, waitVars, ticks,
                   tickResult>>
    /\ UNCHANGED <<flightVars, detectorVars>>

\* the finally block of main: stop_system(), then cleanup()
MainFinally ==
    /\ pc = "main_finally"
    /\ is_running' = FALSE
    /\ \E r \in CleanupResults(stop_system(Vehicle)) :
           /\ SetVehicle(r)
           /\ pc' = IF r.hang THEN "hung" ELSE "done"
    /\ UNCHANGED <<is_connected, flight_start_time, emergency_landing,
                   emergency_stop, queueVars, startup, velocity_sent, waitVars, tickVars>>
    /\ UNCHANGED <<flightVars, detectorVars>>

\* _signal_handler: SIGINT or SIGTERM arrives while main() runs
Signal ==
    /\ pc # "done"
    /\ emergency_stop' = TRUE
    /\ is_running' = FALSE
    /\ is_following' = FALSE
    /\ UNCHANGED <<pc, ctlVars, queueVars, vehicleVars, waitVars, tickVars>>
    /\ UNCHANGED <<flightVars, detectorVars>>

(***************************************************************************)
(* The detection thread                                                    *)
(***************************************************************************)
\* put_nowait that gives up on queue.Full
queue_put_drop_newest(q, item) ==
    IF Len(q) < detection_queue_maxsize
    THEN Append(q, item)
    ELSE q

\* put_nowait, and on queue.Full get_nowait then put_nowait
queue_put(q, item) ==
    IF Len(q) < detection_queue_maxsize
    THEN Append(q, item)
    ELSE Append(Tail(q), item)

DetectionRuns == is_running /\ ~emergency_stop /\ pc # "done"

\* an iteration of detection_loop that also calls follow_person with the commands
DetectionTargetSendsCommand ==
    /\ DetectionRuns
    /\ produced < MaxProduced
    /\ produced' = produced + 1
    /\ detection_queue' = queue_put(detection_queue, produced + 1)
    /\ target_age' = IF is_following THEN "fresh" ELSE target_age
    /\ velocity_sent' = IF is_flying THEN velocity_sent \cup {produced + 1}
                        ELSE velocity_sent
    /\ UNCHANGED <<pc, ctlVars, sysVars, offboard, startup, issued, rtl_failed,
                   landing_alt, waitVars, tickVars>>
    /\ UNCHANGED <<flightVars, detectorVars>>

\* an iteration of detection_loop in which process_frame returned a target
DetectionTarget ==
    /\ DetectionRuns
    /\ produced < MaxProduced
    /\ produced' = produced + 1
    /\ detection_queue' = queue_put(detection_queue, produced + 1)
    /\ target_age' = IF is_following THEN "fresh" ELSE target_age
    /\ UNCHANGED <<pc, ctlVars, sysVars, vehicleVars, waitVars, tickVars>>
    /\ UNCHANGED <<flightVars, detectorVars>>

\* an iteration in which process_frame returned no target, or raised
DetectionNoTarget ==
    /\ DetectionRuns
    /\ UNCHANGED vars

\* more than target_lost_timeout has passed since the last target was detected
TargetTimeout ==
    /\ pc # "done"
    /\ target_age = "fresh"
    /\ target_age' = "lost"
    /\ UNCHANGED <<pc, ctlVars, sysVars, detection_queue, produced, vehicleVars,
                   waitVars, tickVars>>
    /\ UNCHANGED <<flightVars, detectorVars>>

MainThread ==
    \/ Connect
    \/ GpsSample
    \/ GpsStreamStops
    \/ StartSystem
    \/ StartFollowingMode
    \/ ArmAndTakeoff
    \/ TakeoffSample
    \/ TakeoffStreamEnds
    \/ TakeoffStreamRaises
    \/ EnableOffboard
    \/ LoopExit
    \/ TickHealth
    \/ TickEmergency
    \/ EmergencyLandingCall
    \/ Sleep
    \/ LoopFinally
    \/ MainFinally

DetectionThread == DetectionTarget \/ DetectionNoTarget

Environment == TimeoutElapses \/ StreamStalls \/ Signal \/ TargetTimeout

Next == MainThread \/ DetectionThread \/ Environment

Spec == Init /\ [][Next]_vars


(***************************************************************************)
(* The controller's command path: _check_safety_conditions,                *)
(* send_velocity_command and follow_person.  A call is described by the    *)
(* events it produced, in order: "check_ok" and "check_failed" for the     *)
(* safety check, "send" for a command set_velocity_body accepted and       *)
(* "send_raises" for one it refused.                                       *)
(***************************************************************************)
\* what the clock and the two streams deliver to one call of the check, with at
\* most one of them off its nominal value
SafetyReads(fst) ==
    {r \in [ran : {TRUE},
            over : IF fst = "set" THEN BOOLEAN ELSE {FALSE},
            bat : SafetyBatteryReadings,
            alt : SafetyAltitudeReadings,
            raised : BOOLEAN] :
        Cardinality({c \in {"over", "bat", "alt", "raised"} :
                        CASE c = "over" -> r.over
                          [] c = "bat" -> r.bat < safety_low_battery
                          [] c = "alt" -> r.alt \notin {safety_min_altitude, safety_max_altitude}
                          [] OTHER -> r.raised}) <= 1}

\* _check_safety_conditions: TRUE when it is safe to continue
check_safety_conditions(r) ==
    IF r.over THEN FALSE
    ELSE IF r.raised THEN FALSE
    ELSE IF r.bat < safety_low_battery THEN FALSE
    ELSE IF r.alt < safety_min_altitude \/ r.alt > safety_max_altitude THEN FALSE
    ELSE TRUE

\* send_velocity_command
send_velocity_command(flying, accepted) ==
    IF ~flying THEN <<>>
    ELSE IF accepted THEN <<"send">> ELSE <<"send_raises">>

\* follow_person sending the command whatever the check returned
follow_person_unchecked(flying, safe, accepted) ==
    IF ~flying THEN <<>>
    ELSE <<IF safe THEN "check_ok" ELSE "check_failed">>
            \o send_velocity_command(flying, accepted)

\* follow_person
follow_person(flying, safe, accepted) ==
    IF ~flying THEN <<>>
    ELSE IF ~safe THEN <<"check_failed">>
    ELSE <<"check_ok">> \o send_velocity_command(flying, accepted)

Events(trace) == {trace[k] : k \in 1..Len(trace)}

(***************************************************************************)
(* flight_loop as start_flight_thread defines it, running beside           *)
(* detection_loop.  Each queue operation is one step, so the two loops     *)
(* interleave between put_nowait, get_nowait and the second put_nowait.    *)
(***************************************************************************)
FlightInit ==
    /\ pc = "loop"
    /\ is_connected = TRUE
    /\ is_armed = TRUE
    /\ is_flying = TRUE
    /\ flight_start_time = "set"
    /\ emergency_landing = FALSE
    /\ is_running = TRUE
    /\ is_following = TRUE
    /\ emergency_stop = FALSE
    /\ detection_queue = <<>>
    /\ produced = 0
    /\ offboard = TRUE
    /\ startup = <<"connect", "gps_lock", "gps_lock", "arm", "takeoff", "altitude",
                   "offboard_start">>
    /\ issued = {}
    /\ rtl_failed = FALSE
    /\ landing_alt = NoData
    /\ velocity_sent = {0}
    /\ gps_caller = "none"
    /\ waitTimedOut = FALSE
    /\ waitSamples = 0
    /\ stalled = FALSE
    /\ lateSample = FALSE
    /\ ticks = 0
    /\ tickStart = NoTickStart
    /\ hStatus = NoStatus
    /\ hTime = FALSE
    /\ tickResult = "none"
    /\ target_age = "none"
    /\ enqueue = "idle"
    /\ lost = {}
    /\ flight_pc = "get"
    /\ detection_data = 0
    /\ got_newest = 0
    /\ tick_trace = <<>>
    /\ safety_read = NoSafetyRead
    /\ faults = 0
    /\ persons = <<>>
    /\ selected = <<>>
    /\ CommandsAtRest
    /\ PerceptionAtRest
    /\ ControllerAtRest

\* what neither loop writes
flightFrame == <<pc, is_connected, is_armed, is_flying, flight_start_time,
                 emergency_landing, sysVars, offboard, startup, issued, rtl_failed,
                 landing_alt, waitVars, tickVars, detectorVars, controllerVars>>

\* process_frame returned a target: put_nowait
DetectionPut ==
    /\ DetectionRuns
    /\ enqueue = "idle"
    /\ produced < MaxProduced
    /\ produced' = produced + 1
    /\ target_age' = IF is_following THEN "fresh" ELSE target_age
    /\ IF Len(detection_queue) < detection_queue_maxsize
       THEN detection_queue' = Append(detection_queue, produced + 1) /\ enqueue' = "idle"
       ELSE detection_queue' = detection_queue /\ enqueue' = "full"
    /\ UNCHANGED <<flightFrame, velocity_sent, lost, flight_pc, detection_data,
                   got_newest, tick_trace, safety_read, faults>>

\* queue.Full was caught: get_nowait, and "except queue.Empty: pass"
DetectionGetOnFull ==
    /\ enqueue = "full"
    /\ IF detection_queue # <<>>
       THEN /\ detection_queue' = Tail(detection_queue)
            /\ enqueue' = "retry"
            /\ lost' = lost
       ELSE /\ detection_queue' = detection_queue
            /\ enqueue' = "idle"
            /\ lost' = lost \cup {produced}
    /\ UNCHANGED <<flightFrame, produced, target_age, velocity_sent, flight_pc,
                   detection_data, got_newest, tick_trace, safety_read, faults>>

\* the second put_nowait; a queue.Full here reaches "except Exception"
DetectionPutAgain ==
    /\ enqueue = "retry"
    /\ IF Len(detection_queue) < detection_queue_maxsize
       THEN detection_queue' = Append(detection_queue, produced) /\ lost' = lost
       ELSE detection_queue' = detection_queue /\ lost' = lost \cup {produced}
    /\ enqueue' = "idle"
    /\ UNCHANGED <<flightFrame, produced, target_age, velocity_sent, flight_pc,
                   detection_data, got_newest, tick_trace, safety_read, faults>>

\* the condition of flight_loop's while
FlightRuns == is_running /\ ~emergency_stop

\* the top of an iteration: detection_data = None, then get_nowait
FlightGet ==
    /\ flight_pc = "get"
    /\ FlightRuns
    /\ IF detection_queue = <<>>
       THEN /\ detection_data' = 0
            /\ got_newest' = 0
            /\ detection_queue' = detection_queue
       ELSE /\ detection_data' = Head(detection_queue)
            /\ got_newest' = detection_queue[Len(detection_queue)]
            /\ detection_queue' = Tail(detection_queue)
    /\ tick_trace' = <<>>
    /\ safety_read' = NoSafetyRead
    /\ flight_pc' = "act"
    /\ UNCHANGED <<flightFrame, produced, target_age, velocity_sent, enqueue, lost,
                   faults>>

\* "if detection_data and self.is_following": follow_person(tracking_commands)
FlightFollow ==
    /\ flight_pc = "act"
    /\ detection_data # 0 /\ is_following
    /\ \E r \in SafetyReads(flight_start_time), accepted \in BOOLEAN :
        LET safe == check_safety_conditions(r)
            trace == follow_person(is_flying, safe, accepted)
        IN /\ ("check_failed" \in Events(trace) \/ "send_raises" \in Events(trace))
                => faults < MaxFaults
           /\ faults' = IF "check_failed" \in Events(trace) \/ "send_raises" \in Events(trace)
                         THEN faults + 1 ELSE faults
           /\ tick_trace' = trace
           /\ safety_read' = IF is_flying THEN r ELSE NoSafetyRead
           /\ velocity_sent' = IF "send" \in Events(trace)
                                THEN velocity_sent \cup {detection_data}
                                ELSE velocity_sent
    /\ flight_pc' = "sleep"
    /\ UNCHANGED <<flightFrame, queueVars, enqueue, lost, detection_data, got_newest>>

\* the else branch: send_velocity_command with the zero vector
FlightHover ==
    /\ flight_pc = "act"
    /\ ~(detection_data # 0 /\ is_following)
    /\ \E accepted \in BOOLEAN :
        LET trace == send_velocity_command(is_flying, accepted)
        IN /\ "send_raises" \in Events(trace) => faults < MaxFaults
           /\ faults' = IF "send_raises" \in Events(trace) THEN faults + 1 ELSE faults
           /\ tick_trace' = trace
           /\ velocity_sent' = IF "send" \in Events(trace)
                                THEN velocity_sent \cup {0}
                                ELSE velocity_sent
    /\ flight_pc' = "sleep"
    /\ UNCHANGED <<flightFrame, queueVars, enqueue, lost, detection_data, got_newest,
                   safety_read>>

\* time.sleep(1.0 / flight_update_rate), back to the loop condition
FlightSleep ==
    /\ flight_pc = "sleep"
    /\ flight_pc' = "get"
    /\ UNCHANGED <<flightFrame, queueVars, velocity_sent, enqueue, lost, detection_data,
                   got_newest, tick_trace, safety_read, faults>>

\* the loop condition is false: "Flight control thread stopped"
FlightStops ==
    /\ flight_pc = "get"
    /\ ~FlightRuns
    /\ flight_pc' = "stopped"
    /\ detection_data' = 0
    /\ got_newest' = 0
    /\ tick_trace' = <<>>
    /\ safety_read' = NoSafetyRead
    /\ UNCHANGED <<flightFrame, queueVars, velocity_sent, enqueue, lost, faults>>

FlightNext ==
    \/ DetectionPut
    \/ DetectionGetOnFull
    \/ DetectionPutAgain
    \/ DetectionNoTarget
    \/ FlightGet
    \/ FlightFollow
    \/ FlightHover
    \/ FlightSleep
    \/ FlightStops
    \/ Signal

FlightSpec == FlightInit /\ [][FlightNext]_vars


(***************************************************************************)
(* PersonDetector.select_target_person.  A detection is                    *)
(*   [center |-> <<x, y>>, confidence |-> percent, size |-> <<w, h>>]      *)
(* Scores are in tenths of a point, so that distance / 10 and              *)
(* abs(size - 200) / 10 are integers; the centres are chosen at whole      *)
(* distances from the frame centre and the confidences are binary          *)
(* fractions, so that the floating-point score is exact.                   *)
(***************************************************************************)
Centers == {<<320, 240>>, <<350, 280>>, <<470, 440>>}
Confidences == {50, 75}
Sizes == {<<100, 200>>, <<30, 40>>}

Persons == [center : Centers, confidence : Confidences, size : Sizes]

PersonLists == UNION {[1..n -> Persons] : n \in 0..MaxPersons}

Max(a, b) == IF a > b THEN a ELSE b

Abs(a) == IF a < 0 THEN -a ELSE a

\* np.sqrt on a perfect square
Sqrt(n) == CHOOSE r \in 0..(frame_width + frame_height) : r * r = n

\* the score select_target_person gives one detection, in tenths
score(person) ==
    LET center_x == person.center[1]
        center_y == person.center[2]
        frame_center_x == frame_width \div 2
        frame_center_y == frame_height \div 2
        distance_from_center ==
            Sqrt((center_x - frame_center_x) * (center_x - frame_center_x)
                 + (center_y - frame_center_y) * (center_y - frame_center_y))
        center_score == Max(0, 1000 - distance_from_center)
        person_size == Max(person.size[1], person.size[2])
        size_score == IF min_person_size <= person_size /\ person_size <= max_person_size
                      THEN 500
                      ELSE Max(0, 500 - Abs(person_size - 200))
    IN center_score + person.confidence * 10 + size_score

RECURSIVE max_keep_last(_, _, _, _)
\* max(scored_persons, key=...) keeping the later of two equal scores
max_keep_last(ps, k, best_k, best_score) ==
    IF k > Len(ps) THEN best_k
    ELSE IF score(ps[k]) >= best_score
         THEN max_keep_last(ps, k + 1, k, score(ps[k]))
         ELSE max_keep_last(ps, k + 1, best_k, best_score)

RECURSIVE max_scan(_, _, _, _)

\* max(scored_persons, key=lambda x: x[1]): a later element replaces the best
\* so far only when its score is greater
max_scan(ps, k, best_k, best_score) ==
    IF k > Len(ps) THEN best_k
    ELSE IF score(ps[k]) > best_score
         THEN max_scan(ps, k + 1, k, score(ps[k]))
         ELSE max_scan(ps, k + 1, best_k, best_score)

\* select_target_person returning the first detection whatever the scores
select_first_person(ps) ==
    IF ps = <<>> THEN 0 ELSE 1

\* select_target_person: the index of the detection returned, 0 for None
select_target_person(ps) ==
    IF ps = <<>> THEN 0
    ELSE max_scan(ps, 2, 1, score(ps[1]))

DetectorInit ==
    /\ pc = "connect"
    /\ is_connected = FALSE
    /\ is_armed = FALSE
    /\ is_flying = FALSE
    /\ flight_start_time = "None"
    /\ emergency_landing = FALSE
    /\ is_running = FALSE
    /\ is_following = FALSE
    /\ emergency_stop = FALSE
    /\ detection_queue = <<>>
    /\ produced = 0
    /\ offboard = FALSE
    /\ startup = <<>>
    /\ issued = {}
    /\ rtl_failed = FALSE
    /\ landing_alt = NoData
    /\ velocity_sent = {}
    /\ gps_caller = "none"
    /\ waitTimedOut = FALSE
    /\ waitSamples = 0
    /\ stalled = FALSE
    /\ lateSample = FALSE
    /\ ticks = 0
    /\ tickStart = NoTickStart
    /\ hStatus = NoStatus
    /\ hTime = FALSE
    /\ tickResult = "none"
    /\ target_age = "none"
    /\ enqueue = "idle"
    /\ lost = {}
    /\ flight_pc = "stopped"
    /\ detection_data = 0
    /\ got_newest = 0
    /\ tick_trace = <<>>
    /\ safety_read = NoSafetyRead
    /\ faults = 0
    /\ persons \in PersonLists
    /\ selected = <<>>
    /\ CommandsAtRest
    /\ PerceptionAtRest
    /\ ControllerAtRest

\* one call of select_target_person(persons)
SelectTargetPerson ==
    /\ Len(selected) < MaxCalls
    /\ selected' = Append(selected, select_target_person(persons))
    /\ UNCHANGED <<pc, ctlVars, sysVars, queueVars, vehicleVars, waitVars, tickVars,
                   flightVars, persons, commandVars, perceptionVars>>

DetectorNext == SelectTargetPerson

DetectorSpec == DetectorInit /\ [][DetectorNext]_vars


(***************************************************************************)
(* PersonDetector.calculate_tracking_commands and get_smoothed_commands.   *)
(* A command component is a rational <<numerator, denominator>> in lowest  *)
(* terms with a positive denominator, so that equal values are equal       *)
(* tuples; 0.1, 0.5 and 0.7 are 1/10, 1/2 and 7/10.  A result is           *)
(*   [st |-> "ok" or "raised", forward, right, up, yaw]                    *)
(* where "raised" is an exception leaving the call.                        *)
(***************************************************************************)
target_size == 200

\* centres and sizes of the targets passed to calculate_tracking_commands: the frame's
\* corners and centre, offsets of 0.05 and 0.1 of the half frame, and sizes on both
\* sides of target_size, at the bounds of the forward clip, beyond them, and zero
TargetXs == {0, 288, 304, 320, 352, 640}
TargetYs == {0, 216, 240, 264, 480}
TargetSizes == {<<0, 0>>, <<100, 60>>, <<190, 100>>, <<200, 200>>, <<100, 220>>,
                <<400, 300>>, <<500, 200>>}

Targets == [present : {TRUE}, center : TargetXs \X TargetYs, size : TargetSizes]

\* the entries of tracking_history: the call of update_tracking_history that appended
\* the entry, and whether it holds a centre and a size or None and None
HistoryEntry(n, present) == [id |-> n, present |-> present]

\* histories of up to four entries, on both sides of the three get_smoothed_commands asks for
InitialHistories == {[k \in 1..n |-> HistoryEntry(k, TRUE)] : n \in 0..4}

RECURSIVE Gcd(_, _)
Gcd(a, b) == IF b = 0 THEN a ELSE Gcd(b, a % b)

\* n / d in lowest terms, d # 0
Rat(n, d) ==
    LET g == Gcd(Abs(n), Abs(d))
        sgn == IF d < 0 THEN -1 ELSE 1
    IN <<(sgn * n) \div g, (sgn * d) \div g>>

RatLess(a, b) == a[1] * b[2] < b[1] * a[2]

RatNeg(a) == <<-a[1], a[2]>>

RatAbs(a) == <<Abs(a[1]), a[2]>>

RatMul(a, b) == Rat(a[1] * b[1], a[2] * b[2])

RatSub(a, b) == Rat(a[1] * b[2] - b[1] * a[2], a[2] * b[2])

Zero == <<0, 1>>

CommandKeys == {"forward", "right", "up", "yaw"}

\* np.clip returning its argument
clip_nothing(v, lo, hi) == v

\* np.clip(v, lo, hi)
clip(v, lo, hi) == IF RatLess(v, lo) THEN lo ELSE IF RatLess(hi, v) THEN hi ELSE v

deadzone == <<1, 10>>

\* "if abs(commands[key]) < deadzone: commands[key] = 0" with <= for <
apply_deadzone_inclusive(v) == IF ~RatLess(deadzone, RatAbs(v)) THEN Zero ELSE v

\* "if abs(commands[key]) < deadzone: commands[key] = 0"
apply_deadzone(v) == IF RatLess(RatAbs(v), deadzone) THEN Zero ELSE v

\* the dictionary commands of calculate_tracking_commands before the deadzone loop;
\* person_size # 0
clipped_commands(t) ==
    LET center_x == t.center[1]
        center_y == t.center[2]
        frame_center_x == frame_width \div 2
        frame_center_y == frame_height \div 2
        x_offset == Rat(2 * (center_x - frame_center_x), frame_width)
        y_offset == Rat(2 * (center_y - frame_center_y), frame_height)
        person_size == Max(t.size[1], t.size[2])
        distance_ratio == Rat(target_size, person_size)
    IN [forward |-> clip(RatSub(distance_ratio, <<1, 1>>), <<-1, 2>>, <<1, 2>>),
        right |-> clip(RatNeg(x_offset), <<-1, 1>>, <<1, 1>>),
        up |-> clip(RatNeg(y_offset), <<-1, 1>>, <<1, 1>>),
        yaw |-> clip(RatMul(x_offset, <<1, 2>>), <<-1, 2>>, <<1, 2>>)]

\* calculate_tracking_commands: target_size / person_size raises ZeroDivisionError
\* when both the width and the height are 0
calculate_tracking_commands(t) ==
    IF ~t.present
    THEN [st |-> "ok", forward |-> Zero, right |-> Zero, up |-> Zero, yaw |-> Zero]
    ELSE IF Max(t.size[1], t.size[2]) = 0
    THEN [st |-> "raised", forward |-> Zero, right |-> Zero, up |-> Zero, yaw |-> Zero]
    ELSE LET commands == clipped_commands(t)
         IN [st |-> "ok",
             forward |-> apply_deadzone(commands.forward),
             right |-> apply_deadzone(commands.right),
             up |-> apply_deadzone(commands.up),
             yaw |-> apply_deadzone(commands.yaw)]

smoothing_factor == <<7, 10>>

\* "if current != 0: current * smoothing_factor, else 0"
smooth(current) == IF current # Zero THEN RatMul(current, smoothing_factor) ELSE Zero

\* get_smoothed_commands asking for four entries of history
get_smoothed_commands_from_four(commands, history) ==
    IF Len(history) < 4 THEN commands
    ELSE [st |-> commands.st,
          forward |-> smooth(commands.forward),
          right |-> smooth(commands.right),
          up |-> smooth(commands.up),
          yaw |-> smooth(commands.yaw)]

\* get_smoothed_commands
get_smoothed_commands(commands, history) ==
    IF Len(history) < 3 THEN commands
    ELSE [st |-> commands.st,
          forward |-> smooth(commands.forward),
          right |-> smooth(commands.right),
          up |-> smooth(commands.up),
          yaw |-> smooth(commands.yaw)]

\* the detector holds a history and is handed a target or None
CommandInit ==
    /\ MainNotStarted
    /\ ControllerAtRest
    /\ persons = <<>>
    /\ selected = <<>>
    /\ target_person \in Targets \cup {NoTarget}
    /\ raw_commands = <<>>
    /\ smoothed_commands = NoCommands
    /\ tracking_history \in InitialHistories
    /\ updates = Len(tracking_history)
    /\ perception = "none"
    /\ detection_pc = "stopped"

\* one call of calculate_tracking_commands(target_person)
CalculateTrackingCommands ==
    /\ Len(raw_commands) < MaxCalls
    /\ raw_commands' = Append(raw_commands, calculate_tracking_commands(target_person))
    /\ UNCHANGED <<pc, ctlVars, sysVars, queueVars, vehicleVars, waitVars, tickVars,
                   flightVars, persons, selected, target_person, smoothed_commands,
                   perceptionVars>>

\* get_smoothed_commands on what the last call of calculate_tracking_commands returned
GetSmoothedCommands ==
    /\ raw_commands # <<>>
    /\ raw_commands[Len(raw_commands)].st = "ok"
    /\ smoothed_commands = NoCommands
    /\ smoothed_commands' =
           get_smoothed_commands(raw_commands[Len(raw_commands)], tracking_history)
    /\ UNCHANGED <<pc, ctlVars, sysVars, queueVars, vehicleVars, waitVars, tickVars,
                   flightVars, persons, selected, target_person, raw_commands,
                   perceptionVars>>

CommandNext ==
    \/ CalculateTrackingCommands
    \/ GetSmoothedCommands

CommandSpec == CommandInit /\ [][CommandNext]_vars


(***************************************************************************)
(* detection_loop iterating PersonDetector.process_frame.  An iteration is *)
(* one step: capture_frame, detect_persons, select_target_person,          *)
(* update_tracking_history, the commands, _annotate_frame, and the         *)
(* enqueue.  capture_frame and detect_persons catch what the camera and    *)
(* the model raise; what the rest of process_frame raises reaches          *)
(* detection_loop's "except Exception".                                    *)
(***************************************************************************)
max_history == 10

\* update_tracking_history appending only when there is a target
update_tracking_history_skip_absent(history, n, present) ==
    IF present THEN Append(history, HistoryEntry(n, present)) ELSE history

\* update_tracking_history with pop() for pop(0)
update_tracking_history_evict_newest(history, n, present) ==
    LET appended == Append(history, HistoryEntry(n, present))
    IN IF Len(appended) > max_history
       THEN SubSeq(appended, 1, Len(appended) - 1)
       ELSE appended

\* update_tracking_history: append, then pop(0) when longer than max_history
update_tracking_history(history, n, present) ==
    LET appended == Append(history, HistoryEntry(n, present))
    IN IF Len(appended) > max_history
       THEN Tail(appended)
       ELSE appended

\* an exception propagating out of detection_loop
after_exception_unhandled == "dead"

\* "except Exception": log, time.sleep(0.1), back to the while
after_exception == "loop"

\* the detector as its constructor left it, and main() not started
PerceptionInit ==
    /\ MainNotStarted
    /\ ControllerAtRest
    /\ persons = <<>>
    /\ selected = <<>>
    /\ CommandsAtRest
    /\ PerceptionAtRest

\* start_system: is_running = True, start_detection_thread
StartDetectionThread ==
    /\ ~is_running /\ ~emergency_stop
    /\ detection_pc = "stopped"
    /\ updates = 0
    /\ is_running' = TRUE
    /\ detection_pc' = "loop"
    /\ UNCHANGED <<pc, ctlVars, is_following, emergency_stop, queueVars, vehicleVars,
                   waitVars, tickVars, flightVars, persons, selected, commandVars,
                   tracking_history, updates, perception>>

\* the iteration's condition: the while of detection_loop is reached and true
PerceptionRuns == detection_pc = "loop" /\ is_running /\ ~emergency_stop

\* capture_frame returns None (no frame read, or the camera raised):
\* process_frame returns None, None, None
PerceiveNoFrame ==
    /\ PerceptionRuns
    /\ perception' = "no_frame"
    /\ UNCHANGED <<pc, ctlVars, sysVars, queueVars, vehicleVars, waitVars, tickVars,
                   flightVars, persons, selected, commandVars, tracking_history,
                   updates, detection_pc>>

\* an iteration without a target with "if target_person is not None" left out: the
\* item is enqueued with target_person None
PerceiveNoTargetEnqueues ==
    /\ PerceptionRuns
    /\ updates < MaxUpdates
    /\ produced < MaxProduced
    /\ \E outcome \in {"detector_raises", "no_person"} : perception' = outcome
    /\ updates' = updates + 1
    /\ tracking_history' = update_tracking_history(tracking_history, updates + 1, FALSE)
    /\ produced' = produced + 1
    /\ detection_queue' = queue_put(detection_queue, produced + 1)
    /\ UNCHANGED <<pc, ctlVars, sysVars, target_age, vehicleVars, waitVars, tickVars,
                   flightVars, persons, selected, commandVars, detection_pc>>

\* the iterations in which select_target_person returns None: the model raised inside
\* detect_persons, which returns [], or it found no person
PerceiveNoTarget ==
    /\ PerceptionRuns
    /\ updates < MaxUpdates
    /\ \E outcome \in {"detector_raises", "no_person"} : perception' = outcome
    /\ updates' = updates + 1
    /\ tracking_history' = update_tracking_history(tracking_history, updates + 1, FALSE)
    /\ UNCHANGED <<pc, ctlVars, sysVars, queueVars, vehicleVars, waitVars, tickVars,
                   flightVars, persons, selected, commandVars, detection_pc>>

\* process_frame returns a target and its commands: the enqueue
PerceiveTarget ==
    /\ PerceptionRuns
    /\ updates < MaxUpdates
    /\ produced < MaxProduced
    /\ perception' = "target"
    /\ updates' = updates + 1
    /\ tracking_history' = update_tracking_history(tracking_history, updates + 1, TRUE)
    /\ produced' = produced + 1
    /\ detection_queue' = queue_put(detection_queue, produced + 1)
    /\ target_age' = IF is_following THEN "fresh" ELSE target_age
    /\ UNCHANGED <<pc, ctlVars, sysVars, vehicleVars, waitVars, tickVars, flightVars,
                   persons, selected, commandVars, detection_pc>>

\* process_frame raises after update_tracking_history: calculate_tracking_commands on
\* a target of size 0, or _annotate_frame with or without a target
PerceiveRaises ==
    /\ PerceptionRuns
    /\ updates < MaxUpdates
    /\ perception' = "raised"
    /\ updates' = updates + 1
    /\ \E present \in BOOLEAN :
          tracking_history' = update_tracking_history(tracking_history, updates + 1, present)
    /\ detection_pc' = after_exception
    /\ UNCHANGED <<pc, ctlVars, sysVars, queueVars, vehicleVars, waitVars, tickVars,
                   flightVars, persons, selected, commandVars>>

\* the while condition is false: "Person detection thread stopped"
DetectionLoopStops ==
    /\ detection_pc = "loop"
    /\ ~(is_running /\ ~emergency_stop)
    /\ detection_pc' = "stopped"
    /\ UNCHANGED <<pc, ctlVars, sysVars, queueVars, vehicleVars, waitVars, tickVars,
                   flightVars, persons, selected, commandVars, tracking_history,
                   updates, perception>>

PerceptionNext ==
    \/ StartDetectionThread
    \/ PerceiveNoFrame
    \/ PerceiveNoTarget
    \/ PerceiveTarget
    \/ PerceiveRaises
    \/ DetectionLoopStops
    \/ Signal

PerceptionSpec == PerceptionInit /\ [][PerceptionNext]_vars


(***************************************************************************)
(* PersonDetector.process_frame with its commands: capture_frame,          *)
(* detect_persons and select_target_person give no frame, no target or a   *)
(* target; update_tracking_history runs on every captured frame, and with  *)
(* a target calculate_tracking_commands and get_smoothed_commands follow.  *)
(***************************************************************************)
\* the tracking_commands process_frame returns without a target
ZeroCommands == [st |-> "ok", forward |-> Zero, right |-> Zero, up |-> Zero, yaw |-> Zero]

\* the targets process_frame selects: at the frame's corner and a tenth of the half
\* frame right of its centre, of size 0, of the target size and beyond the forward clip
FrameTargets ==
    {t \in Targets : /\ t.center \in {<<0, 0>>, <<352, 240>>}
                     /\ t.size \in {<<0, 0>>, <<200, 200>>, <<500, 200>>}}

FrameInit ==
    /\ MainNotStarted
    /\ ControllerAtRest
    /\ persons = <<>>
    /\ selected = <<>>
    /\ CommandsAtRest
    /\ PerceptionAtRest

\* capture_frame returns None: process_frame returns None, None, None
ProcessFrameNoFrame ==
    /\ perception' = "no_frame"
    /\ target_person' = NoTarget
    /\ raw_commands' = <<>>
    /\ smoothed_commands' = NoCommands
    /\ UNCHANGED <<pc, ctlVars, sysVars, queueVars, vehicleVars, waitVars, tickVars,
                   flightVars, persons, selected, tracking_history, updates,
                   detection_pc>>

\* a frame without a target: the history entry, then the zero dictionary
ProcessFrameNoTarget ==
    /\ updates < MaxCaptured
    /\ perception' = "no_person"
    /\ updates' = updates + 1
    /\ tracking_history' = update_tracking_history(tracking_history, updates + 1, FALSE)
    /\ target_person' = NoTarget
    /\ raw_commands' = <<>>
    /\ smoothed_commands' = ZeroCommands
    /\ UNCHANGED <<pc, ctlVars, sysVars, queueVars, vehicleVars, waitVars, tickVars,
                   flightVars, persons, selected, detection_pc>>

\* a frame with a target: the history entry, calculate_tracking_commands, and
\* get_smoothed_commands on the history that holds the entry; when
\* calculate_tracking_commands raises nothing is returned
ProcessFrameTarget ==
    /\ updates < MaxCaptured
    /\ \E t \in FrameTargets :
        LET history == update_tracking_history(tracking_history, updates + 1, TRUE)
            commands == calculate_tracking_commands(t)
        IN /\ target_person' = t
           /\ tracking_history' = history
           /\ raw_commands' = <<commands>>
           /\ IF commands.st = "raised"
              THEN /\ perception' = "raised"
                   /\ smoothed_commands' = NoCommands
              ELSE /\ perception' = "target"
                   /\ smoothed_commands' = get_smoothed_commands(commands, history)
    /\ updates' = updates + 1
    /\ UNCHANGED <<pc, ctlVars, sysVars, queueVars, vehicleVars, waitVars, tickVars,
                   flightVars, persons, selected, detection_pc>>

FrameNext ==
    \/ ProcessFrameNoFrame
    \/ ProcessFrameNoTarget
    \/ ProcessFrameTarget

FrameSpec == FrameInit /\ [][FrameNext]_vars


(***************************************************************************)
(* AutonomousController.send_velocity_command and follow_person on the     *)
(* dictionaries they are passed.  Linear velocities are in cm/s and yaw    *)
(* rates in hundredths of a degree per second, so that 3.0 m/s, 45.0 deg/s *)
(* and the detector's 0.35 are integers; the yaw rate handed to            *)
(* set_velocity_body is np.radians of the clipped one, in milliradians per *)
(* second.  A call is numbered, and its number stands for time.time().     *)
(***************************************************************************)
max_velocity == 300
max_yaw_rate == 4500
velocity_max_history == 5

\* the values a key of the dictionary can hold: inside the range, at its bound, beyond it
LinearValues == {-500, 35, 300}
YawValues == {-6000, 35, 4500}

\* the dictionaries passed to send_velocity_command, any of the four keys missing
Velocities ==
    UNION {{v \in [keys -> LinearValues \cup YawValues] :
               \A key \in keys : IF key = "yaw" THEN v[key] \in YawValues
                                 ELSE v[key] \in LinearValues}
           : keys \in SUBSET CommandKeys}

\* velocity.get(key, 0.0)
get(v, key) == IF key \in DOMAIN v THEN v[key] ELSE 0

\* np.clip on numbers
np_clip(x, lo, hi) == IF x < lo THEN lo ELSE IF x > hi THEN hi ELSE x

\* np.radians: hundredths of a degree to milliradians, pi taken as 3.1416
radians(x) ==
    LET magnitude == (Abs(x) * 31416) \div 180000
    IN IF x < 0 THEN -magnitude ELSE magnitude

\* "Apply safety limits" with the clips left out
unclipped_velocity(v) ==
    [forward |-> get(v, "forward"), right |-> get(v, "right"), up |-> get(v, "up"),
     yaw |-> get(v, "yaw")]

\* "Extract velocity components" and "Apply safety limits"
clipped_velocity(v) ==
    [forward |-> np_clip(get(v, "forward"), -max_velocity, max_velocity),
     right |-> np_clip(get(v, "right"), -max_velocity, max_velocity),
     up |-> np_clip(get(v, "up"), -max_velocity, max_velocity),
     yaw |-> np_clip(get(v, "yaw"), -max_yaw_rate, max_yaw_rate)]

\* VelocityBodyYawspeed(forward, right, up, yaw_rad)
VelocityBodyYawspeed(v) ==
    LET c == clipped_velocity(v)
    IN [forward |-> c.forward, right |-> c.right, up |-> c.up, yaw_rad |-> radians(c.yaw)]

\* what set_velocity_body was called with after the call whose trace is given
handed_after(h, trace, v) ==
    IF "send" \in Events(trace) \/ "send_raises" \in Events(trace)
    THEN Append(h, VelocityBodyYawspeed(v))
    ELSE h

\* velocity_history with the append placed before the await of set_velocity_body
history_appended_before_send(history, trace, v, now) ==
    IF "send" \in Events(trace) \/ "send_raises" \in Events(trace)
    THEN LET appended == Append(history, [timestamp |-> now] @@ clipped_velocity(v))
         IN IF Len(appended) > velocity_max_history THEN Tail(appended) ELSE appended
    ELSE history

\* velocity_history after the call with pop() for pop(0)
history_after_evict_newest(history, trace, v, now) ==
    IF "send" \in Events(trace)
    THEN LET appended == Append(history, [timestamp |-> now] @@ clipped_velocity(v))
         IN IF Len(appended) > velocity_max_history
            THEN SubSeq(appended, 1, Len(appended) - 1)
            ELSE appended
    ELSE history

\* velocity_history after the call: the append and the pop(0) follow the await
history_after(history, trace, v, now) ==
    IF "send" \in Events(trace)
    THEN LET appended == Append(history, [timestamp |-> now] @@ clipped_velocity(v))
         IN IF Len(appended) > velocity_max_history THEN Tail(appended) ELSE appended
    ELSE history

\* the controller as its constructor left it, and a dictionary to be sent
ControllerInit ==
    /\ MainNotStarted
    /\ persons = <<>>
    /\ selected = <<>>
    /\ CommandsAtRest
    /\ PerceptionAtRest
    /\ velocity \in Velocities
    /\ handed = <<>>
    /\ velocity_history = <<>>
    /\ current_target = 0
    /\ last_target_time = 0
    /\ send_ret = "none"
    /\ sends = 0

\* arm_and_takeoff: the position stream yields an altitude of at least 0.9 * target
TakeoffCompletes ==
    /\ ~is_flying
    /\ flight_start_time = "None"
    /\ is_connected' = TRUE
    /\ is_armed' = TRUE
    /\ is_flying' = TRUE
    /\ flight_start_time' = "set"
    /\ UNCHANGED <<pc, emergency_landing, sysVars, queueVars, vehicleVars, waitVars,
                   tickVars, enqueue, lost, flight_pc, detection_data, got_newest,
                   tick_trace, safety_read, faults, controllerVars, detectorVars>>

\* return_to_launch: the position stream yields an altitude below 0.5 m
LandingCompletes ==
    /\ is_flying
    /\ \E alt \in {a \in LandingReadings : Landed(a)} : landing_alt' = alt
    /\ is_flying' = FALSE
    /\ UNCHANGED <<pc, is_connected, is_armed, flight_start_time, emergency_landing,
                   sysVars, queueVars, offboard, startup, issued, rtl_failed,
                   velocity_sent, waitVars, tickVars, enqueue, lost, flight_pc,
                   detection_data, got_newest, tick_trace, safety_read, faults,
                   controllerVars, detectorVars>>

\* one call of send_velocity_command(velocity)
SendVelocityCommand ==
    /\ sends < MaxSends
    /\ \E accepted \in BOOLEAN :
        LET trace == send_velocity_command(is_flying, accepted)
        IN /\ tick_trace' = trace
           /\ handed' = handed_after(handed, trace, velocity)
           /\ velocity_history' = history_after(velocity_history, trace, velocity, sends + 1)
           /\ send_ret' = IF "send" \in Events(trace) THEN "True" ELSE "False"
    /\ sends' = sends + 1
    /\ UNCHANGED <<pc, ctlVars, sysVars, queueVars, vehicleVars, waitVars, tickVars,
                   enqueue, lost, flight_pc, detection_data, got_newest, safety_read,
                   faults, velocity, current_target, last_target_time, detectorVars>>

\* one call of follow_person(velocity)
FollowPerson ==
    /\ sends < MaxSends
    /\ \E r \in SafetyReads(flight_start_time), accepted \in BOOLEAN :
        LET trace == follow_person(is_flying, check_safety_conditions(r), accepted)
            success == "send" \in Events(trace)
        IN /\ tick_trace' = trace
           /\ handed' = handed_after(handed, trace, velocity)
           /\ velocity_history' = history_after(velocity_history, trace, velocity, sends + 1)
           /\ current_target' = IF success THEN sends + 1 ELSE current_target
           /\ last_target_time' = IF success THEN sends + 1 ELSE last_target_time
           /\ send_ret' = IF success THEN "True" ELSE "False"
    /\ sends' = sends + 1
    /\ UNCHANGED <<pc, ctlVars, sysVars, queueVars, vehicleVars, waitVars, tickVars,
                   enqueue, lost, flight_pc, detection_data, got_newest, safety_read,
                   faults, velocity, detectorVars>>

ControllerNext ==
    \/ TakeoffCompletes
    \/ LandingCompletes
    \/ SendVelocityCommand
    \/ FollowPerson

ControllerSpec == ControllerInit /\ [][ControllerNext]_vars


(***************************************************************************)
(* A run of send_velocity_command calls, each with its own dictionary,     *)
(* long enough for velocity_history to overflow.  Here velocity_sent holds *)
(* what set_velocity_body accepted: the number of the call and the clipped *)
(* command.                                                                *)
(***************************************************************************)
\* a command inside the limits and one beyond them
HistoryVelocities ==
    {v \in Velocities : DOMAIN v = {"forward"} /\ v["forward"] \in {-500, 35}}

HistoryInit ==
    /\ MainNotStarted
    /\ persons = <<>>
    /\ selected = <<>>
    /\ CommandsAtRest
    /\ PerceptionAtRest
    /\ velocity \in HistoryVelocities
    /\ handed = <<>>
    /\ velocity_history = <<>>
    /\ current_target = 0
    /\ last_target_time = 0
    /\ send_ret = "none"
    /\ sends = 0

\* one call of send_velocity_command with a dictionary of its own
SendNextCommand ==
    /\ sends < MaxHistorySends
    /\ \E v \in HistoryVelocities, accepted \in BOOLEAN :
        LET trace == send_velocity_command(is_flying, accepted)
        IN /\ velocity' = v
           /\ tick_trace' = trace
           /\ handed' = handed_after(handed, trace, v)
           /\ velocity_history' = history_after(velocity_history, trace, v, sends + 1)
           /\ velocity_sent' =
                  IF "send" \in Events(trace)
                  THEN velocity_sent
                          \cup {[call |-> sends + 1, command |-> clipped_velocity(v)]}
                  ELSE velocity_sent
           /\ send_ret' = IF "send" \in Events(trace) THEN "True" ELSE "False"
    /\ sends' = sends + 1
    /\ UNCHANGED <<pc, ctlVars, sysVars, queueVars, offboard, startup, issued,
                   rtl_failed, landing_alt, waitVars, tickVars, enqueue, lost,
                   flight_pc, detection_data, got_newest, safety_read, faults,
                   current_target, last_target_time, detectorVars>>

HistoryNext ==
    \/ TakeoffCompletes
    \/ LandingCompletes
    \/ SendNextCommand

HistorySpec == HistoryInit /\ [][HistoryNext]_vars


(***************************************************************************)
(* Vocabulary of the properties                                            *)
(***************************************************************************)
\* offboard.start() has succeeded in this run
OffboardStarted == Len(startup) > 0 /\ startup[Len(startup)] = "offboard_start"

\* the health check of the current tick has passed and the tick is still running
HealthPassed ==
    \/ pc \in {"emergency_check", "emergency_landing", "sleep"}
    \/ pc = "gps_wait" /\ gps_caller = "_check_emergency_conditions"

\* the status the health check fetched lacks the battery or the position
TickFetchFailed == hStatus.alt = NoData \/ hStatus.bat = NoData

\* the health check of the current tick read a warn-level condition and no critical one
WarnLevel ==
    /\ ~hTime
    /\ ~(hStatus.bat # NoData /\ hStatus.bat < critical_battery_level)
    /\ ~(hStatus.alt # NoData /\ hStatus.alt > emergency_altitude)
    /\ \/ hStatus.bat # NoData /\ hStatus.bat < low_battery_threshold
       \/ hStatus.alt # NoData /\ (hStatus.alt < min_altitude \/ hStatus.alt > max_altitude)

\* the newest n items produced, in production order
Newest(n) == [k \in 1..n |-> produced - n + k]

Min(a, b) == IF a < b THEN a ELSE b

(***************************************************************************)
(* C1: with the battery reported at 9% to a tick that starts while the     *)
(* vehicle flies in offboard mode, the tick ends in the emergency-landing  *)
(* action, not in return-to-launch.                                        *)
(***************************************************************************)
C1_CriticalBatteryEndsInEmergencyLanding ==
    (tickStart.offboard /\ hStatus.bat = 9 /\ tickResult # "none")
        => tickResult = "emergency"

(***************************************************************************)
(* C2: when _check_emergency_conditions reports an emergency in a tick     *)
(* that started in offboard flight, the emergency-landing procedure has    *)
(* run by the time the tick's call returns: offboard is stopped, the land  *)
(* command is issued and the emergency state is recorded.                  *)
(***************************************************************************)
C2_EmergencyRunsEmergencyLanding ==
    (/\ pc = "loop_finally" /\ tickResult = "emergency"
     /\ tickStart.offboard /\ ~TickFetchFailed)
        => (~offboard /\ "land" \in issued /\ emergency_landing = TRUE)

(***************************************************************************)
(* C3: a tick whose telemetry fetch failed (the status lacks battery or    *)
(* position) is not reported healthy by the health check.                  *)
(***************************************************************************)
C3_FetchFailureIsCritical ==
    HealthPassed => ~TickFetchFailed

(***************************************************************************)
(* C4: when main() returns after offboard mode was enabled, the vehicle    *)
(* has been taken out of offboard mode and a return-to-launch or land      *)
(* command has been issued.                                                *)
(***************************************************************************)
C4_NeverExitsInOffboard ==
    (pc = "done" /\ OffboardStarted)
        => (~offboard /\ ("rtl" \in issued \/ "land" \in issued))

(***************************************************************************)
(* C5: offboard mode is started only after connect, GPS lock (in           *)
(* initialize_system and again in arm_and_takeoff), arm, takeoff and the   *)
(* climb to 0.9 x the target altitude have all succeeded, in that order.   *)
(***************************************************************************)
C5_OffboardOnlyAfterTakeoff ==
    OffboardStarted
        => startup = <<"connect", "gps_lock", "gps_lock", "arm", "takeoff",
                       "altitude", "offboard_start">>

(***************************************************************************)
(* C6: the GPS-lock wait and the takeoff-altitude wait end within their    *)
(* timeout: neither is still waiting after the timeout has passed, be it   *)
(* after a sample that came late or on a stream that yields nothing more.  *)
(***************************************************************************)
C6_WaitsEndWithinTimeout ==
    pc \in {"gps_wait", "takeoff_wait"}
        => ~(waitTimedOut /\ (stalled \/ lateSample))

(***************************************************************************)
(* C7 as stated: a warn-level verdict in offboard flight makes the system  *)
(* stop following and hover, still in offboard mode: no return-to-launch   *)
(* or landing is started and the supervisory loop goes on.                 *)
(***************************************************************************)
C7_WarnHovers ==
    (tickStart.offboard /\ WarnLevel)
        => /\ ~is_following
           /\ offboard
           /\ issued \cap {"rtl", "land"} = {}
           /\ pc \notin {"loop_finally", "hung"}

(***************************************************************************)
(* C7 amended: a warn-level verdict in offboard flight makes the system    *)
(* stop following and call return-to-launch in that tick, which ends the   *)
(* supervisory loop: the tick never goes on to the emergency check or the  *)
(* sleep, and once the return-to-launch command is accepted the vehicle    *)
(* is out of offboard mode.                                                *)
(***************************************************************************)
C7_WarnReturnsToLaunch ==
    (tickStart.offboard /\ WarnLevel)
        => /\ ~is_following
           /\ tickResult = "rtl"
           /\ pc \in {"loop_finally", "hung"}
           /\ (pc = "hung" => "rtl" \in issued)
           /\ ("rtl" \in issued => ~offboard)

C7_Witness ==
    /\ tickStart.offboard
    /\ WarnLevel
    /\ hStatus.bat = 15
    /\ tickResult = "rtl"
    /\ "rtl" \in issued
    /\ pc = "loop_finally"

(***************************************************************************)
(* C8: the system was following a target, that target is older than        *)
(* target_lost_timeout when a tick starts and still is when the tick has   *)
(* passed: the system has left following and a zero velocity command has   *)
(* been sent.                                                              *)
(***************************************************************************)
C8_TargetLostHovers ==
    (/\ pc = "sleep"
     /\ tickStart.offboard /\ tickStart.following
     /\ tickStart.lost /\ target_age = "lost"
     /\ ~TickFetchFailed)
        => (~is_following /\ 0 \in velocity_sent)

(***************************************************************************)
(* C9: a tick started in following mode with a target already queued, all  *)
(* its checks passed on telemetry that was fetched, and nothing was        *)
(* discarded for overflow: by the end of the tick the control loop has     *)
(* delivered a target's command to the actuator.                           *)
(***************************************************************************)
C9_ConsumerDelivers ==
    (/\ pc = "sleep"
     /\ tickResult = "continue"
     /\ tickStart.offboard /\ tickStart.following /\ is_following
     /\ ~TickFetchFailed
     /\ tickStart.queued
     /\ produced <= detection_queue_maxsize)
        => \E i \in 1..produced : i \in velocity_sent

(***************************************************************************)
(* C10: the detection queue never holds more than 10 items, and after N    *)
(* puts it holds the newest min(N, 10) items in production order.          *)
(***************************************************************************)
C10_QueueHoldsNewest ==
    /\ Len(detection_queue) <= detection_queue_maxsize
    /\ detection_queue = Newest(Min(produced, detection_queue_maxsize))

C10_Witness ==
    /\ produced > detection_queue_maxsize
    /\ Len(detection_queue) = detection_queue_maxsize
    /\ detection_queue[1] = produced - detection_queue_maxsize + 1

(***************************************************************************)
(* C11: every enqueue attempt of the detection loop ends with the item it  *)
(* produced in the queue, whatever flight_loop's get_nowait does in        *)
(* between: no item is discarded by its own enqueue.                       *)
(***************************************************************************)
C11_EnqueueKeepsNewest ==
    lost = {}

(***************************************************************************)
(* C12: the item an iteration of flight_loop took from the queue is the    *)
(* newest item that was queued when it took it.                            *)
(***************************************************************************)
C12_ConsumerTakesNewest ==
    (flight_pc = "act" /\ detection_data # 0) => detection_data = got_newest

\* the safety checks the current iteration of flight_loop has run
SafetyChecksRun ==
    Cardinality({k \in 1..Len(tick_trace) : tick_trace[k] \in {"check_ok", "check_failed"}})

(***************************************************************************)
(* C13: an iteration of flight_loop that has issued its command, on either *)
(* branch, has run the safety check exactly once.                          *)
(***************************************************************************)
C13_OneSafetyCheckPerTick ==
    flight_pc = "sleep" => SafetyChecksRun = 1

\* the check of the current iteration read a condition that makes it fail
UnsafeRead ==
    /\ safety_read.ran
    /\ \/ safety_read.over
       \/ safety_read.raised
       \/ safety_read.bat < safety_low_battery
       \/ safety_read.alt < safety_min_altitude
       \/ safety_read.alt > safety_max_altitude

(***************************************************************************)
(* C14: in follow_person the safety check comes before the command: when   *)
(* the check read an exceeded flight time, a battery below 20%, an         *)
(* altitude below 1 m or above 30 m, or raised, the call ends at the       *)
(* failed check and the target's command has not reached the actuator;     *)
(* and a target's command that reached the actuator was sent after a check *)
(* that passed on readings inside every limit.                             *)
(***************************************************************************)
C14_SafetyCheckVetoesCommand ==
    /\ UnsafeRead => (tick_trace = <<"check_failed">> /\ detection_data \notin velocity_sent)
    /\ (detection_data # 0 /\ detection_data \in velocity_sent)
            => (tick_trace = <<"check_ok", "send">> /\ safety_read.ran /\ ~UnsafeRead)

C14_Witness ==
    /\ flight_pc = "sleep"
    /\ detection_data # 0
    /\ tick_trace = <<"check_failed">>
    /\ safety_read.bat = 15
    /\ detection_data \notin velocity_sent

\* return_to_launch has been called: its command was accepted, or the call failed
RtlAttempted == "rtl" \in issued \/ rtl_failed

C17_LandedOnlyAfterLowAltitude ==
    [][(is_flying /\ ~is_flying')
        => /\ issued' \cap {"rtl", "land"} # {}
           /\ ~offboard'
           /\ landing_alt' # NoData
           /\ landing_alt' < landed_altitude]_vars

C17_Witness ==
    /\ flight_start_time = "set"
    /\ ~is_flying
    /\ landing_alt = 4
    /\ "rtl" \in issued

(***************************************************************************)
(* C18: whenever the disarm command has been sent to the actuator the      *)
(* flying flag is false, also on the cleanup paths where return-to-launch  *)
(* failed.                                                                 *)
(***************************************************************************)
C18_DisarmOnlyAfterLanding ==
    "disarm" \in issued => ~is_flying

(***************************************************************************)
(* C19: select_target_person returns None exactly when the list is empty,  *)
(* and otherwise a detection of the list whose score (center_score +       *)
(* confidence * 100 + size_score) is at least the score of every           *)
(* detection in the list.                                                  *)
(***************************************************************************)
C19_SelectsMaximumScore ==
    \A c \in 1..Len(selected) :
        /\ selected[c] = 0 <=> persons = <<>>
        /\ selected[c] # 0 =>
              /\ selected[c] \in 1..Len(persons)
              /\ \A j \in 1..Len(persons) :
                    score(persons[selected[c]]) >= score(persons[j])

C19_Witness ==
    /\ Len(selected) >= 1
    /\ Len(persons) = 3
    /\ selected[1] = 3
    /\ score(persons[3]) > score(persons[1])
    /\ score(persons[1]) > score(persons[2])

(***************************************************************************)
(* C20: among detections that share the maximum score the one returned is  *)
(* the first in the list, and a second call on the same list returns the   *)
(* same detection.                                                         *)
(***************************************************************************)
C20_FirstOfTheMaxima ==
    /\ \A c \in 1..Len(selected) :
          selected[c] # 0 =>
              \A j \in 1..(selected[c] - 1) :
                  score(persons[j]) < score(persons[selected[c]])
    /\ Len(selected) = 2 => selected[1] = selected[2]

C20_Witness ==
    /\ Len(selected) = 2
    /\ Len(persons) = 3
    /\ selected[1] = 2
    /\ score(persons[3]) = score(persons[2])
    /\ persons[3] # persons[2]

(***************************************************************************)
(* C21: calculate_tracking_commands never raises: a target whose width and *)
(* height are both 0 yields a returned intent, not an exception out of     *)
(* target_size / person_size.                                              *)
(***************************************************************************)
C21_DegenerateSizeReturnsIntent ==
    \A c \in 1..Len(raw_commands) : raw_commands[c].st = "ok"

\* a command component within [-bound, bound]
Within(v, bound) == ~RatLess(v, RatNeg(bound)) /\ ~RatLess(bound, v)

(***************************************************************************)
(* C22: for a target of any centre and any positive size the intent        *)
(* returned has forward and yaw within [-0.5, 0.5] and right and up within *)
(* [-1, 1]; without a target it is the zero vector; and a second call on   *)
(* the same target returns the same intent.                                *)
(***************************************************************************)
C22_IntentWithinBounds ==
    /\ \A c \in 1..Len(raw_commands) :
          /\ (target_person.present /\ Max(target_person.size[1], target_person.size[2]) > 0)
                => /\ raw_commands[c].st = "ok"
                   /\ Within(raw_commands[c].forward, <<1, 2>>)
                   /\ Within(raw_commands[c].yaw, <<1, 2>>)
                   /\ Within(raw_commands[c].right, <<1, 1>>)
                   /\ Within(raw_commands[c].up, <<1, 1>>)
          /\ ~target_person.present
                => raw_commands[c] = [st |-> "ok", forward |-> Zero, right |-> Zero,
                                      up |-> Zero, yaw |-> Zero]
    /\ Len(raw_commands) = 2 => raw_commands[1] = raw_commands[2]

\* a target twice the target size at the frame's left edge: forward would be -0.6 and
\* is -0.5, right is 1
C22_Witness ==
    /\ Len(raw_commands) = 2
    /\ target_person.present
    /\ target_person.size = <<500, 200>>
    /\ target_person.center[1] = 0
    /\ raw_commands[2].forward = <<-1, 2>>
    /\ raw_commands[2].right = <<1, 1>>

(***************************************************************************)
(* C23: each component of the intent is exactly 0 when the magnitude of    *)
(* its clipped raw value is below 0.1, and is the clipped raw value        *)
(* otherwise, a magnitude of exactly 0.1 included.                         *)
(***************************************************************************)
C23_DeadzoneBelowOneTenth ==
    \A c \in 1..Len(raw_commands) :
        (target_person.present /\ raw_commands[c].st = "ok") =>
            \A key \in CommandKeys :
                raw_commands[c][key] =
                    IF RatLess(RatAbs(clipped_commands(target_person)[key]), <<1, 10>>)
                    THEN Zero
                    ELSE clipped_commands(target_person)[key]

\* x_offset is exactly 0.1: right is -0.1 and is kept, yaw would be 0.05 and is 0
C23_Witness ==
    /\ Len(raw_commands) >= 1
    /\ target_person.present
    /\ target_person.center[1] = 352
    /\ raw_commands[1].st = "ok"
    /\ raw_commands[1].right = <<-1, 10>>
    /\ raw_commands[1].yaw = Zero
    /\ clipped_commands(target_person).yaw = <<1, 20>>

C25_HistoryHoldsNewestTen ==
    /\ Len(tracking_history) = Min(updates, 10)
    /\ \A k \in 1..Len(tracking_history) :
          tracking_history[k].id = updates - Len(tracking_history) + k

\* twelve calls: the entries of the first two are gone
C25_Witness ==
    /\ updates = 12
    /\ Len(tracking_history) = 10
    /\ tracking_history[1].id = 3
    /\ tracking_history[10].id = 12

\* the outcomes of an iteration that are perception failures
PerceptionFailures == {"no_frame", "detector_raises", "raised"}

(***************************************************************************)
(* C27: an iteration of the detection loop in which perception fails (no   *)
(* frame, the detector raising, an exception out of process_frame)         *)
(* enqueues nothing and leaves the loop at its while, not terminated.      *)
(***************************************************************************)
C27_PerceptionFailureEnqueuesNothing ==
    [][(/\ perception' \in PerceptionFailures
        /\ (perception' # perception \/ updates' # updates))
           => /\ detection_queue' = detection_queue
              /\ produced' = produced
              /\ detection_pc' = "loop"]_vars

\* a target was enqueued, then the detector raised, then process_frame raised: the queue
\* still holds the one item and the loop is at its while
C27_Witness ==
    /\ perception = "raised"
    /\ updates = 3
    /\ tracking_history[1].present
    /\ ~tracking_history[2].present
    /\ produced = 1
    /\ detection_queue = <<1>>
    /\ detection_pc = "loop"
    /\ is_running

(***************************************************************************)
(* C26: every setpoint send_velocity_command hands to set_velocity_body    *)
(* has forward, right and up within [-3, 3] m/s and a yaw rate within what *)
(* 45 deg/s converts to, whatever the dictionary passed: keys missing,     *)
(* values beyond the limits.                                               *)
(***************************************************************************)
C26_SetpointsWithinLimits ==
    \A k \in 1..Len(handed) :
        /\ handed[k].forward \in -300..300
        /\ handed[k].right \in -300..300
        /\ handed[k].up \in -300..300
        /\ handed[k].yaw_rad \in -785..785

\* forward and yaw beyond the limits and no key "up": -3 m/s, -45 deg/s, 0
C26_Witness ==
    /\ Len(handed) >= 1
    /\ "up" \notin DOMAIN velocity
    /\ get(velocity, "forward") = -500
    /\ get(velocity, "yaw") = -6000
    /\ handed[1].forward = -300
    /\ handed[1].up = 0
    /\ handed[1].yaw_rad = -785

(***************************************************************************)
(* C28: a call in which set_velocity_body raises calls it once, returns    *)
(* False, and leaves velocity_history, current_target and last_target_time *)
(* as they were; a later call sends its own command.                       *)
(***************************************************************************)
C28_FailedSendChangesNothing ==
    [][(sends' = sends + 1 /\ "send_raises" \in Events(tick_trace'))
          => /\ Len(handed') = Len(handed) + 1
             /\ send_ret' = "False"
             /\ velocity_history' = velocity_history
             /\ current_target' = current_target
             /\ last_target_time' = last_target_time]_vars

\* the first call failed at the actuator and the second, a follow_person, succeeded
C28_Witness ==
    /\ sends = 2
    /\ Len(handed) = 2
    /\ Len(velocity_history) = 1
    /\ velocity_history[1].timestamp = 2
    /\ current_target = 2
    /\ last_target_time = 2
    /\ send_ret = "True"

(***************************************************************************)
(* C29: an iteration of the detection thread leaves is_following,          *)
(* is_flying, is_armed and the vehicle as they are, and every command the  *)
(* vehicle receives is issued by a step of the main coroutine, which       *)
(* issues them one after the other.                                        *)
(***************************************************************************)
C29_OnlyMainCommandsTheVehicle ==
    /\ [][produced' # produced
             => UNCHANGED <<is_following, is_flying, is_armed, vehicleVars>>]_vars
    /\ [][vehicleVars' # vehicleVars => pc' # pc]_vars

\* the detection thread has enqueued targets while the vehicle flies in offboard mode
C29_Witness ==
    /\ produced > 0
    /\ is_following
    /\ is_flying
    /\ offboard
    /\ 0 \in velocity_sent
    /\ pc = "loop"

(***************************************************************************)
(* C30: no velocity command reaches the actuator while is_flying is false, *)
(* neither before the takeoff has completed nor after a completed landing. *)
(***************************************************************************)
C30_NoVelocityCommandUnlessFlying ==
    [][velocity_sent' # velocity_sent => is_flying]_vars

\* run_main_loop's cleanup has returned with the vehicle landed and disarmed, and
\* main()'s finally block is about to call stop_system and cleanup again
CleanedUp ==
    /\ pc = "main_finally"
    /\ ~is_following /\ ~is_flying /\ ~is_armed

(***************************************************************************)
(* C31: once a first cleanup has left the vehicle landed and disarmed,     *)
(* with is_following, is_flying and is_armed false, the cleanup of main()'s*)
(* finally block issues no command to the vehicle, whatever the vehicle    *)
(* would answer, and returns with the flags still false.                   *)
(***************************************************************************)
C31_SecondCleanupIssuesNothing ==
    /\ [](CleanedUp =>
            \A r \in CleanupResults(stop_system([Vehicle EXCEPT !.issued = {}])) :
                /\ r.issued = {}
                /\ ~r.hang
                /\ ~r.is_following /\ ~r.is_flying /\ ~r.is_armed)
    /\ [][(CleanedUp /\ pc' = "done")
             => /\ UNCHANGED vehicleVars
                /\ ~is_following' /\ ~is_flying' /\ ~is_armed']_vars

\* the loop ran in offboard mode, its cleanup returned to launch, saw the vehicle below
\* 0.5 m and disarmed it, and main()'s finally block is reached
C31_Witness ==
    /\ CleanedUp
    /\ OffboardStarted
    /\ ~is_following /\ ~is_flying /\ ~is_armed
    /\ {"rtl", "disarm"} \subseteq issued
    /\ ~rtl_failed
    /\ landing_alt = 4
    /\ tickResult = "none"
    /\ CleanupResults(stop_system(Vehicle)) = {Vehicle}

(***************************************************************************)
(* C32: every item on the detection queue was enqueued by an iteration in  *)
(* which process_frame returned a target, together with the commands and   *)
(* the time of that iteration; an iteration that selects no target         *)
(* enqueues nothing.                                                       *)
(***************************************************************************)
C32_QueueHoldsTargetsOnly ==
    /\ [](\A k \in 1..Len(detection_queue) : detection_queue[k] \in 1..produced)
    /\ [][detection_queue' # detection_queue
             => /\ perception' = "target"
                /\ updates' = updates + 1
                /\ tracking_history'[Len(tracking_history')] = HistoryEntry(updates', TRUE)
                /\ produced' = produced + 1
                /\ detection_queue'[Len(detection_queue')] = produced']_vars

\* no person, then a target, then no person: one item is queued
C32_Witness ==
    /\ perception = "no_person"
    /\ updates = 3
    /\ ~tracking_history[1].present
    /\ tracking_history[2].present
    /\ ~tracking_history[3].present
    /\ produced = 1
    /\ detection_queue = <<1>>

(***************************************************************************)
(* C33: process_frame appends exactly one history entry for every captured *)
(* frame, with or without a target, and none when no frame is captured;    *)
(* the entry is in the history when the smoothing looks at it, so the      *)
(* commands of the first two captured frames are returned as calculated    *)
(* and from the third captured frame on every command returned with a      *)
(* target is smoothed.                                                     *)
(***************************************************************************)
C33_SmoothedFromThirdFrame ==
    /\ [](Len(tracking_history) = updates)
    /\ [][perception' = "no_frame" => tracking_history' = tracking_history]_vars
    /\ [][perception' \in {"no_person", "target", "raised"}
             => /\ updates' = updates + 1
                /\ tracking_history' =
                       Append(tracking_history,
                              HistoryEntry(updates + 1, perception' # "no_person"))]_vars
    /\ [](perception = "target" =>
            IF updates <= 2
            THEN smoothed_commands = raw_commands[1]
            ELSE \A key \in CommandKeys :
                    smoothed_commands[key] =
                        IF raw_commands[1][key] = Zero
                        THEN Zero
                        ELSE RatMul(raw_commands[1][key], <<7, 10>>))

\* two frames without a target, then a target at the third: forward -0.5 is returned
\* as -0.35
C33_Witness ==
    /\ updates = 3
    /\ ~tracking_history[1].present
    /\ ~tracking_history[2].present
    /\ tracking_history[3].present
    /\ perception = "target"
    /\ raw_commands[1].forward = <<-1, 2>>
    /\ smoothed_commands.forward = <<-7, 20>>

(***************************************************************************)
(* C34: after any sequence of send_velocity_command calls, accepted or     *)
(* refused by the actuator or made while not flying, velocity_history      *)
(* holds at most max_history = 5 entries, and they are the commands of the *)
(* most recent accepted calls in the order they were sent.                 *)
(***************************************************************************)
C34_HistoryHoldsNewestFiveSent ==
    LET n == Min(Cardinality(velocity_sent), 5)
    IN /\ Len(velocity_history) = n
       /\ \A k \in 1..n :
             \E s \in velocity_sent :
                 /\ velocity_history[k] = [timestamp |-> s.call] @@ s.command
                 /\ Cardinality({later \in velocity_sent : later.call > s.call}) = n - k

\* seven calls, the third refused: the entries are those of calls 2, 4, 5, 6 and 7
C34_Witness ==
    /\ sends = 7
    /\ Cardinality(velocity_sent) = 6
    /\ Len(velocity_history) = 5
    /\ velocity_history[1].timestamp = 2
    /\ velocity_history[2].timestamp = 4
    /\ velocity_history[5].timestamp = 7
    /\ velocity_history[1].forward = -300
    /\ velocity_history[5].forward = 35

=============================================================================
